---- MODULE Spec2Model ----
(***************************************************************************)
(* Model of homework.py: the workout calculator (InfoMessage, Training and  *)
(* its variants Running, SportsWalking, Swimming, read_package, main and    *)
(* the driver loop).                                                        *)
(*                                                                          *)
(* Numbers.  The program computes with Python numbers.  The model computes  *)
(* the same expressions, in the same order, over exact rationals            *)
(* [neg, num, den]; num and den are naturals of arbitrary size, kept as     *)
(* little-endian sequences of limbs, since the results do not fit a machine *)
(* integer.  A rational is not reduced to lowest terms: REq compares two    *)
(* of them.  Rounding of binary floating point is not modelled: a value is  *)
(* exact, and a printed value is the exact value rounded to three digits.   *)
(*                                                                          *)
(* Exceptions.  A call returns Ok(value) or Raise(exception, argument); an  *)
(* exception ends every call on the way up to the one that catches it.      *)
(*                                                                          *)
(* Three specifications: Spec is the program as run (the loop of the        *)
(* __main__ block over a list of packages), SpecClient is a caller of       *)
(* read_package, Training(...) and main that goes on after an exception,    *)
(* and SpecCalc is one instance built from a wide range of readings, with   *)
(* the calls of its methods.                                                *)
(***************************************************************************)
EXTENDS Integers, Sequences, FiniteSets, TLC

----------------------------------------------------------------------------
(* Arbitrary-size naturals: <<>> is 0, no most-significant zero limb.  The  *)
(* operations are functions, so that an argument is evaluated once, before  *)
(* the call.                                                                *)

Base == 10 * 10 * 10

Limbs == Seq(Nat)

NatOf[k \in Nat] ==
    IF k = 0 THEN <<>> ELSE <<k % Base>> \o NatOf[k \div Base]

Rest[a \in Limbs] == IF a = <<>> THEN <<>> ELSE Tail(a)

First[a \in Limbs] == IF a = <<>> THEN 0 ELSE Head(a)

NAddC[a \in Limbs, b \in Limbs, c \in Nat] ==
    IF a = <<>> /\ b = <<>>
    THEN (IF c = 0 THEN <<>> ELSE <<c>>)
    ELSE <<(First[a] + First[b] + c) % Base>>
            \o NAddC[Rest[a], Rest[b], (First[a] + First[b] + c) \div Base]

NAdd[a \in Limbs, b \in Limbs] == NAddC[a, b, 0]

NStrip[a \in Limbs] ==
    IF a = <<>> THEN <<>>
    ELSE IF a[Len(a)] = 0 THEN NStrip[SubSeq(a, 1, Len(a) - 1)]
    ELSE a

NMulLimb[a \in Limbs, k \in Nat, c \in Nat] ==
    IF a = <<>>
    THEN (IF c = 0 THEN <<>> ELSE <<c>>)
    ELSE <<(Head(a) * k + c) % Base>>
            \o NMulLimb[Tail(a), k, (Head(a) * k + c) \div Base]

Shift[a \in Limbs] == IF a = <<>> THEN <<>> ELSE <<0>> \o a

NMul[a \in Limbs, b \in Limbs] ==
    IF a = <<>> \/ b = <<>> THEN <<>>
    ELSE NAdd[NStrip[NMulLimb[a, Head(b), 0]], Shift[NMul[a, Tail(b)]]]

NCmpFrom[a \in Limbs, b \in Limbs, i \in Nat] ==
    IF i = 0 THEN 0
    ELSE IF a[i] < b[i] THEN -1
    ELSE IF a[i] > b[i] THEN 1
    ELSE NCmpFrom[a, b, i - 1]

NCmp[a \in Limbs, b \in Limbs] ==
    IF Len(a) < Len(b) THEN -1
    ELSE IF Len(a) > Len(b) THEN 1
    ELSE NCmpFrom[a, b, Len(a)]

NSubB[a \in Limbs, b \in Limbs, c \in Nat] ==
    IF a = <<>> THEN <<>>
    ELSE IF Head(a) - First[b] - c < 0
    THEN <<Head(a) - First[b] - c + Base>> \o NSubB[Tail(a), Rest[b], 1]
    ELSE <<Head(a) - First[b] - c>> \o NSubB[Tail(a), Rest[b], 0]

NSub[a \in Limbs, b \in Limbs] == NStrip[NSubB[a, b, 0]]

----------------------------------------------------------------------------
(* Exact rationals.                                                         *)

Rationals == [neg : BOOLEAN, num : Limbs, den : Limbs]

Signed[s \in BOOLEAN, n \in Limbs, d \in Limbs] ==
    [neg |-> s /\ n # <<>>, num |-> n, den |-> d]

Rat(n, d) == Signed[n < 0, NatOf[IF n < 0 THEN -n ELSE n], NatOf[d]]

IsZero(x) == x.num = <<>>

RMul[x \in Rationals, y \in Rationals] ==
    Signed[x.neg # y.neg, NMul[x.num, y.num], NMul[x.den, y.den]]

RDiv[x \in Rationals, y \in Rationals] ==
    Signed[x.neg # y.neg, NMul[x.num, y.den], NMul[x.den, y.num]]

(* a/d + b/d, each with its sign.                                           *)
AddSigned[xneg \in BOOLEAN, a \in Limbs, yneg \in BOOLEAN, b \in Limbs, d \in Limbs] ==
    IF xneg = yneg THEN Signed[xneg, NAdd[a, b], d]
    ELSE IF NCmp[a, b] >= 0 THEN Signed[xneg, NSub[a, b], d]
    ELSE Signed[yneg, NSub[b, a], d]

RAdd[x \in Rationals, y \in Rationals] ==
    AddSigned[x.neg, NMul[x.num, y.den], y.neg, NMul[y.num, x.den],
              NMul[x.den, y.den]]

REq[x \in Rationals, y \in Rationals] ==
    /\ x.neg = y.neg
    /\ NMul[x.num, y.den] = NMul[y.num, x.den]

(* A number printed with three digits after the point, as '{:.3f}' does:    *)
(* the sign and the count of thousandths, rounded to nearest, ties to even. *)
(* FmtLimit bounds the integer search for the quotient.                     *)

FmtLimit == (2 ^ 30) - 1

(* The largest q in lo..hi with q * d <= n.                                 *)
FloorSearch[lo \in Nat, hi \in Nat, n \in Limbs, d \in Limbs] ==
    IF lo = hi THEN lo
    ELSE IF NCmp[NMul[NatOf[(lo + hi + 1) \div 2], d], n] <= 0
    THEN FloorSearch[(lo + hi + 1) \div 2, hi, n, d]
    ELSE FloorSearch[lo, ((lo + hi + 1) \div 2) - 1, n, d]

(* q, or q + 1 when twice the remainder compares as c (1, 0, -1) with the   *)
(* divisor.                                                                 *)
RoundHalfEven[q \in Nat, c \in Int] ==
    IF c > 0 \/ (c = 0 /\ q % 2 = 1) THEN q + 1 ELSE q

Twice[a \in Limbs] == NAdd[a, a]

Quotient[n \in Limbs, d \in Limbs, q \in Nat] ==
    RoundHalfEven[q, NCmp[Twice[NSub[n, NMul[NatOf[q], d]]], d]]

Format3f[x \in Rationals] ==
    [neg |-> x.neg,
     milli |-> Quotient[NMul[x.num, NatOf[1000]], x.den,
                        FloorSearch[0, FmtLimit, NMul[x.num, NatOf[1000]], x.den]]]

----------------------------------------------------------------------------
(* Results of calls: a returned value or a raised exception.                *)

(* F applied to the value of v: v is evaluated once, before the call.       *)
With(v, F(_)) == CHOOSE r \in {F(x) : x \in {v}} : TRUE

Ok(v) == [exc |-> "None", val |-> v]
Raise(e, a) == [exc |-> e, arg |-> a]
NoExc == [exc |-> "None"]
None == [none |-> TRUE]

----------------------------------------------------------------------------
(* class InfoMessage                                                        *)

InfoMessage(training_type, duration, distance, speed, calories) ==
    [training_type |-> training_type, duration |-> duration,
     distance |-> distance, speed |-> speed, calories |-> calories]

get_message(self) ==
    [training_type |-> self.training_type,
     duration |-> Format3f[self.duration],
     distance |-> Format3f[self.distance],
     speed |-> Format3f[self.speed],
     calories |-> Format3f[self.calories]]

----------------------------------------------------------------------------
(* class Training and its subclasses.  An instance is a record of its       *)
(* attributes and cls, the name of its class.                               *)

ClassNames == {"Training", "Running", "SportsWalking", "Swimming"}

M_IN_KM == Rat(1000, 1)
MINUTES_IN_HOUR == Rat(60, 1)

(* Every class with the stroke length of Swimming.                          *)
LEN_STEP_stroke(cls) == Rat(138, 100)

LEN_STEP(cls) == IF cls = "Swimming" THEN Rat(138, 100) ELSE Rat(65, 100)

Running_CALORIES_MEAN_SPEED_MULTIPLIER == Rat(18, 1)
(* The term subtracted, with the value 20 of another version of the formula. *)
Running_CALORIES_ENERGY_SUBTRAHEND_minus20 == Rat(-20, 1)

Running_CALORIES_ENERGY_SUBTRAHEND == Rat(179, 100)

SportsWalking_CALORIES_WEIGHT_MULTIPLIER == Rat(35, 1000)
SportsWalking_CALORIES_DURATION_MULTIPLIER == Rat(29, 1000)
KM_PER_HOUR_TO_M_PER_SEC == Rat(278, 1000)
CM_TO_M == Rat(100, 1)

Swimming_CALORIES_MEAN_SPEED_SUBTRAHEND == Rat(11, 10)
Swimming_CALORIES_WEIGHT_MULTIPLIER == Rat(2, 1)

Training_init(cls, action, duration, weight) ==
    [cls |-> cls, actions_count |-> action, duration_h |-> duration,
     weight_kg |-> weight]

SportsWalking_init(action, duration, weight, height) ==
    [cls |-> "SportsWalking", actions_count |-> action,
     duration_h |-> duration, weight_kg |-> weight, height_cm |-> height]

(* Swimming.__init__ with the two pool attributes assigned the wrong way    *)
(* round.                                                                   *)
Swimming_init_swapped(action, duration, weight, length_pool, count_pool) ==
    [cls |-> "Swimming", actions_count |-> action, duration_h |-> duration,
     weight_kg |-> weight, length_pool_m |-> count_pool,
     count_pool |-> length_pool]

Swimming_init(action, duration, weight, length_pool, count_pool) ==
    [cls |-> "Swimming", actions_count |-> action, duration_h |-> duration,
     weight_kg |-> weight, length_pool_m |-> length_pool,
     count_pool |-> count_pool]

(* The number of positional arguments the constructor of cls takes.         *)
Arity(cls) ==
    IF cls = "Swimming" THEN 5 ELSE IF cls = "SportsWalking" THEN 4 ELSE 3

(* The class whose __init__ an instance of cls is built by.                 *)
InitOwner(cls) == IF cls = "Running" THEN "Training" ELSE cls

(* The call of cls with the unpacked data: a wrong number of arguments      *)
(* raises TypeError, which names the __init__ called.                       *)
Construct(cls, data) ==
    IF Len(data) # Arity(cls) THEN Raise("TypeError", InitOwner(cls))
    ELSE IF cls = "Swimming"
    THEN Ok(Swimming_init(data[1], data[2], data[3], data[4], data[5]))
    ELSE IF cls = "SportsWalking"
    THEN Ok(SportsWalking_init(data[1], data[2], data[3], data[4]))
    ELSE Ok(Training_init(cls, data[1], data[2], data[3]))

get_distance(self) ==
    Ok(RDiv[RMul[self.actions_count, LEN_STEP(self.cls)], M_IN_KM])

Training_get_mean_speed(self) ==
    IF IsZero(self.duration_h) THEN Raise("ZeroDivisionError", "division by zero")
    ELSE Ok(RDiv[get_distance(self).val, self.duration_h])

(* Swimming without its override of get_mean_speed.                        *)
Swimming_get_mean_speed_inherited(self) == Training_get_mean_speed(self)

Swimming_get_mean_speed(self) ==
    IF IsZero(self.duration_h) THEN Raise("ZeroDivisionError", "division by zero")
    ELSE Ok(RDiv[RDiv[RMul[self.length_pool_m, self.count_pool], M_IN_KM],
                 self.duration_h])

get_mean_speed(self) ==
    IF self.cls = "Swimming" THEN Swimming_get_mean_speed(self)
    ELSE Training_get_mean_speed(self)

(* The base method returning 0 instead of raising.                          *)
Training_get_spent_calories_zero(self) == Ok(Rat(0, 1))

Training_get_spent_calories(self) ==
    Raise("NotImplementedError", self.cls)

Running_get_spent_calories(self) ==
    LET duration_in_minutes == RMul[self.duration_h, MINUTES_IN_HOUR]
    IN  With(get_mean_speed(self), LAMBDA speed :
        IF speed.exc # "None" THEN speed
        ELSE Ok(RMul[RDiv[RMul[RAdd[RMul[Running_CALORIES_MEAN_SPEED_MULTIPLIER,
                                         speed.val],
                                    Running_CALORIES_ENERGY_SUBTRAHEND],
                               self.weight_kg],
                          M_IN_KM],
                     duration_in_minutes]))

(* x ** 2                                                                   *)
Squared[x \in Rationals] == RMul[x, x]

SportsWalking_get_spent_calories(self) ==
    With(get_mean_speed(self), LAMBDA speed :
        IF speed.exc # "None" THEN speed
        ELSE IF IsZero(RDiv[self.height_cm, CM_TO_M])
        THEN Raise("ZeroDivisionError", "division by zero")
        ELSE Ok(RMul[RAdd[RMul[SportsWalking_CALORIES_WEIGHT_MULTIPLIER,
                               self.weight_kg],
                          RMul[RDiv[Squared[RMul[speed.val,
                                                 KM_PER_HOUR_TO_M_PER_SEC]],
                                    RDiv[self.height_cm, CM_TO_M]],
                               RMul[SportsWalking_CALORIES_DURATION_MULTIPLIER,
                                    self.weight_kg]]],
                     RMul[self.duration_h, MINUTES_IN_HOUR]]))

Swimming_get_spent_calories(self) ==
    With(get_mean_speed(self), LAMBDA speed :
        IF speed.exc # "None" THEN speed
        ELSE Ok(RMul[RMul[RMul[RAdd[speed.val,
                                    Swimming_CALORIES_MEAN_SPEED_SUBTRAHEND],
                               Swimming_CALORIES_WEIGHT_MULTIPLIER],
                          self.weight_kg],
                     self.duration_h]))

get_spent_calories(self) ==
    IF self.cls = "Running" THEN Running_get_spent_calories(self)
    ELSE IF self.cls = "SportsWalking" THEN SportsWalking_get_spent_calories(self)
    ELSE IF self.cls = "Swimming" THEN Swimming_get_spent_calories(self)
    ELSE Training_get_spent_calories(self)

(* show_training_info passing speed and distance in each other's place.     *)
show_training_info_swapped(self) ==
    With(get_distance(self), LAMBDA distance :
    With(get_mean_speed(self), LAMBDA speed :
        IF speed.exc # "None" THEN speed
        ELSE With(get_spent_calories(self), LAMBDA calories :
            IF calories.exc # "None" THEN calories
            ELSE Ok(InfoMessage(self.cls, self.duration_h, speed.val,
                                distance.val, calories.val)))))

(* The arguments of InfoMessage(...) are evaluated left to right; the first *)
(* one that raises ends the call.                                           *)
show_training_info(self) ==
    With(get_distance(self), LAMBDA distance :
    With(get_mean_speed(self), LAMBDA speed :
        IF speed.exc # "None" THEN speed
        ELSE With(get_spent_calories(self), LAMBDA calories :
            IF calories.exc # "None" THEN calories
            ELSE Ok(InfoMessage(self.cls, self.duration_h, distance.val,
                                speed.val, calories.val)))))

----------------------------------------------------------------------------
(* read_package and main                                                    *)

training_data ==
    [c \in {"SWM", "RUN", "WLK"} |->
        IF c = "SWM" THEN "Swimming"
        ELSE IF c = "RUN" THEN "Running" ELSE "SportsWalking"]

(* read_package falling back to Running for a code it does not know.        *)
read_package_default(workout_type, data) ==
    IF workout_type \notin DOMAIN training_data
    THEN Construct("Running", data)
    ELSE Construct(training_data[workout_type], data)

read_package(workout_type, data) ==
    IF workout_type \notin DOMAIN training_data
    THEN Raise("KeyError", workout_type)
    ELSE Construct(training_data[workout_type], data)

(* print putting the line before the lines already printed.                 *)
print_first(out, line) == <<line>> \o out

print(out, line) == Append(out, line)

(* main printing the type of the training before it asks for the message.   *)
main_header_first(self, out) ==
    With(show_training_info(self), LAMBDA info :
        IF info.exc # "None"
        THEN [exc |-> info, info |-> None,
              out |-> print(out, [training_type |-> self.cls])]
        ELSE [exc |-> NoExc, info |-> info.val,
              out |-> print(out, get_message(info.val))])

(* main(training) on standard output out: the exception raised, if any, its *)
(* local info, and the standard output after the call.                      *)
main(self, out) ==
    With(show_training_info(self), LAMBDA info :
        IF info.exc # "None" THEN [exc |-> info, info |-> None, out |-> out]
        ELSE [exc |-> NoExc, info |-> info.val,
              out |-> print(out, get_message(info.val))])

----------------------------------------------------------------------------
(* Inputs.                                                                  *)

MaxPackages == 2
MaxOps == 4
MaxCalls == 2
MaxHalfHours == 2
MaxReadings == 6

(* The three codes of training_data and two that are not in it.             *)
Codes == {"SWM", "RUN", "WLK", "XYZ", "run"}

Num(n) == Rat(n, 1)

(* The readings tried at position i of a data list: actions, duration,      *)
(* weight, height or pool length, pool count, and readings beyond those.    *)
PositionValues(i) ==
    IF i = 1 THEN {Num(0), Num(720), Num(9000), Num(15000)}
    ELSE IF i = 2
    THEN {IF k % 2 = 0 THEN Num(k \div 2) ELSE Rat(k, 2) : k \in 0..MaxHalfHours}
    ELSE IF i = 3 THEN {Num(-75), Num(75), Num(80)}
    ELSE IF i = 4 THEN {Num(0), Num(25), Num(180)}
    ELSE IF i = 5 THEN {Num(0), Num(40)}
    ELSE {Num(1)}

ListsOfLen[n \in Nat] ==
    IF n = 0 THEN {<<>>}
    ELSE {Append(s, v) : s \in ListsOfLen[n - 1], v \in PositionValues(n)}

DataLists == UNION {ListsOfLen[n] : n \in 2..MaxReadings}

(* The data lists the driver and the client are run on: the three of the    *)
(* source, one with a zero duration and one with a fractional duration.     *)
SampleData ==
    {<<Num(720), Num(1), Num(80), Num(25), Num(40)>>,
     <<Num(15000), Num(1), Num(75)>>,
     <<Num(9000), Num(1), Num(75), Num(180)>>,
     <<Num(9000), Num(0), Num(75), Num(180)>>,
     <<Num(720), Rat(1, 2), Num(80)>>}

SamplePackages ==
    {[workout_type |-> w, data |-> d] : w \in Codes, d \in SampleData}

PackageLists[n \in Nat] ==
    IF n = 0 THEN {<<>>}
    ELSE {Append(s, p) : s \in PackageLists[n - 1], p \in SamplePackages}

----------------------------------------------------------------------------
(* State.                                                                   *)

VARIABLES
    packages,   \* the driver's list of (workout_type, data) pairs
    idx,        \* the driver's position in packages, from 1
    pc,         \* the driver's control point
    training,   \* the Training instance at hand, or None
    info,       \* the InfoMessage last returned for training, or None
    prev_info,  \* the InfoMessage returned for training before info, or None
    output,     \* the lines printed on standard output
    exc,        \* the exception raised by the last call, or NoExc
    call,       \* the last call of a client
    ret,        \* what the last method call of a client returned, or None
    ops         \* the number of calls a client has made

vars == <<packages, idx, pc, training, info, prev_info, output, exc, call,
          ret, ops>>

driverVars == <<packages, idx, pc>>
clientVars == <<call, ret, ops, prev_info>>

----------------------------------------------------------------------------
(* The driver: the loop over packages of the __main__ block.  An exception  *)
(* is not caught and ends the program.                                      *)

Init ==
    /\ packages \in UNION {PackageLists[n] : n \in 0..MaxPackages}
    /\ idx = 1
    /\ pc = "loop"
    /\ training = None
    /\ info = None
    /\ prev_info = None
    /\ output = <<>>
    /\ exc = NoExc
    /\ call = None
    /\ ret = None
    /\ ops = 0

DriverReadPackage ==
    /\ pc = "loop"
    /\ idx <= Len(packages)
    /\ \E r \in {read_package(packages[idx].workout_type, packages[idx].data)} :
           IF r.exc # "None"
           THEN /\ exc' = r
                /\ pc' = "raised"
                /\ UNCHANGED training
           ELSE /\ training' = r.val
                /\ pc' = "main"
                /\ UNCHANGED exc
    /\ UNCHANGED <<packages, idx, info, output>>
    /\ UNCHANGED clientVars

DriverMain ==
    /\ pc = "main"
    /\ \E m \in {main(training, output)} :
           /\ output' = m.out
           /\ IF m.exc # NoExc
              THEN /\ exc' = m.exc
                   /\ pc' = "raised"
                   /\ UNCHANGED <<idx, info>>
              ELSE /\ info' = m.info
                   /\ idx' = idx + 1
                   /\ pc' = "loop"
                   /\ UNCHANGED exc
    /\ UNCHANGED <<packages, training>>
    /\ UNCHANGED clientVars

DriverExit ==
    /\ pc = "loop"
    /\ idx > Len(packages)
    /\ pc' = "done"
    /\ UNCHANGED <<packages, idx, training, info, output, exc>>
    /\ UNCHANGED clientVars

Next ==
    \/ DriverReadPackage
    \/ DriverMain
    \/ DriverExit

Spec == Init /\ [][Next]_vars

----------------------------------------------------------------------------
(* A client of the module: it calls read_package, the constructors, the     *)
(* methods of the instance it holds and main, and goes on after an          *)
(* exception.                                                               *)

ClientInit ==
    /\ packages = <<>>
    /\ idx = 1
    /\ pc = "client"
    /\ training = None
    /\ info = None
    /\ prev_info = None
    /\ output = <<>>
    /\ exc = NoExc
    /\ call = None
    /\ ret = None
    /\ ops = 0

(* training = read_package(w, d), or training = cls(d...).                  *)
Built(result, c) ==
    /\ call' = c
    /\ ret' = None
    /\ ops' = ops + 1
    /\ \E r \in {result} :
           IF r.exc # "None"
           THEN /\ exc' = r
                /\ UNCHANGED <<training, info, prev_info>>
           ELSE /\ exc' = NoExc
                /\ training' = r.val
                /\ info' = None
                /\ prev_info' = None
    /\ UNCHANGED output
    /\ UNCHANGED driverVars

ReadPackageCall(w, d) ==
    Built(read_package(w, d),
          [op |-> "read_package", workout_type |-> w, data |-> d])

ConstructCall(cls, d) ==
    Built(Construct(cls, d), [op |-> "construct", cls |-> cls, data |-> d])

(* A call of a method of training that returns a number.                    *)
Returned(result, c) ==
    /\ call' = c
    /\ ops' = ops + 1
    /\ \E r \in {result} :
           IF r.exc # "None"
           THEN exc' = r /\ ret' = None
           ELSE exc' = NoExc /\ ret' = r.val
    /\ UNCHANGED <<training, info, prev_info, output>>
    /\ UNCHANGED driverVars

GetDistanceCall ==
    /\ training # None
    /\ Returned(get_distance(training), [op |-> "get_distance"])

GetMeanSpeedCall ==
    /\ training # None
    /\ Returned(get_mean_speed(training), [op |-> "get_mean_speed"])

GetSpentCaloriesCall ==
    /\ training # None
    /\ Returned(get_spent_calories(training), [op |-> "get_spent_calories"])

(* show_training_info turning duration_h into minutes in the instance.      *)
ShowTrainingInfoCall_in_place ==
    /\ training # None
    /\ \E r \in {show_training_info(training)} :
           IF r.exc # "None"
           THEN /\ exc' = r
                /\ ret' = None
                /\ UNCHANGED <<info, prev_info>>
           ELSE /\ exc' = NoExc
                /\ ret' = r.val
                /\ info' = r.val
                /\ prev_info' = info
    /\ training' = [training EXCEPT !.duration_h = RMul[@, MINUTES_IN_HOUR]]
    /\ call' = [op |-> "show_training_info"]
    /\ ops' = ops + 1
    /\ UNCHANGED output
    /\ UNCHANGED driverVars

ShowTrainingInfoCall ==
    /\ training # None
    /\ \E r \in {show_training_info(training)} :
           IF r.exc # "None"
           THEN /\ exc' = r
                /\ ret' = None
                /\ UNCHANGED <<info, prev_info>>
           ELSE /\ exc' = NoExc
                /\ ret' = r.val
                /\ info' = r.val
                /\ prev_info' = info
    /\ call' = [op |-> "show_training_info"]
    /\ ops' = ops + 1
    /\ UNCHANGED <<training, output>>
    /\ UNCHANGED driverVars

MainCall ==
    /\ training # None
    /\ \E m \in {main(training, output)} :
           /\ output' = m.out
           /\ exc' = m.exc
    /\ call' = [op |-> "main"]
    /\ ret' = None
    /\ ops' = ops + 1
    /\ UNCHANGED <<training, info, prev_info>>
    /\ UNCHANGED driverVars

ClientReadPackage ==
    /\ ops < MaxOps
    /\ \E p \in SamplePackages : ReadPackageCall(p.workout_type, p.data)

ClientConstruct ==
    /\ ops < MaxOps
    /\ \E d \in SampleData : ConstructCall("Training", d)

ClientMain ==
    /\ ops < MaxOps
    /\ MainCall

ClientNext ==
    \/ ClientReadPackage
    \/ ClientConstruct
    \/ ClientMain

SpecClient == ClientInit /\ [][ClientNext]_vars

----------------------------------------------------------------------------
(* The calculations: one instance, built from any code or class and any     *)
(* data list, and then any calls of its methods.                            *)

CalcReadPackage ==
    /\ ops = 0
    /\ \E w \in Codes, d \in DataLists : ReadPackageCall(w, d)

CalcConstruct ==
    /\ ops = 0
    /\ \E cls \in ClassNames, d \in DataLists : ConstructCall(cls, d)

CalcGetDistance == ops <= MaxCalls /\ GetDistanceCall

CalcGetMeanSpeed == ops <= MaxCalls /\ GetMeanSpeedCall

CalcGetSpentCalories == ops <= MaxCalls /\ GetSpentCaloriesCall

CalcShowTrainingInfo == ops <= MaxCalls /\ ShowTrainingInfoCall

CalcMain == ops <= MaxCalls /\ MainCall

CalcNext ==
    \/ CalcReadPackage
    \/ CalcConstruct
    \/ CalcGetDistance
    \/ CalcGetMeanSpeed
    \/ CalcGetSpentCalories
    \/ CalcShowTrainingInfo
    \/ CalcMain

SpecCalc == ClientInit /\ [][CalcNext]_vars

----------------------------------------------------------------------------
(* Properties.                                                              *)

KnownCodes == {"SWM", "RUN", "WLK"}
ConcreteClasses == {"Running", "SportsWalking", "Swimming"}

Positive(x) == ~x.neg /\ ~IsZero(x)
NonNegative(x) == ~x.neg

Called(op) == call # None /\ call.op = op

(* The readings of the instance are in the ranges of the data model.        *)
ValidInstance(self) ==
    /\ NonNegative(self.actions_count)
    /\ Positive(self.duration_h)
    /\ Positive(self.weight_kg)
    /\ self.cls = "SportsWalking" => Positive(self.height_cm)
    /\ self.cls = "Swimming" =>
          Positive(self.length_pool_m) /\ NonNegative(self.count_pool)

(* The line main prints for a package the driver processes without error.   *)
SummaryLine(p) ==
    get_message(show_training_info(read_package(p.workout_type, p.data).val).val)

(* C1: right after read_package was called with a code other than SWM, RUN  *)
(* and WLK, whatever the data, the call has raised KeyError carrying that   *)
(* code and no Training instance exists.                                    *)
C1_UnknownCodeRaises ==
    (Called("read_package") /\ call.workout_type \notin KnownCodes) =>
        /\ exc = Raise("KeyError", call.workout_type)
        /\ training = None

C1_Witness ==
    /\ Called("read_package")
    /\ call.workout_type = "XYZ"
    /\ Len(call.data) = 3
    /\ exc.exc = "KeyError"

(* C2: right after read_package was called with a known code and a data     *)
(* list of the length the code's variant takes, the instance is of the      *)
(* matching class and its attributes hold the readings in positional order. *)
C2_PositionalConstruction ==
    LET w == call.workout_type
        d == call.data
        n == IF w = "RUN" THEN 3 ELSE IF w = "WLK" THEN 4 ELSE 5
    IN  (Called("read_package") /\ w \in KnownCodes /\ Len(d) = n) =>
            /\ exc = NoExc
            /\ training # None
            /\ training.actions_count = d[1]
            /\ training.duration_h = d[2]
            /\ training.weight_kg = d[3]
            /\ w = "RUN" =>
                  /\ training.cls = "Running"
                  /\ DOMAIN training =
                        {"cls", "actions_count", "duration_h", "weight_kg"}
            /\ w = "WLK" =>
                  /\ training.cls = "SportsWalking"
                  /\ training.height_cm = d[4]
                  /\ DOMAIN training =
                        {"cls", "actions_count", "duration_h", "weight_kg",
                         "height_cm"}
            /\ w = "SWM" =>
                  /\ training.cls = "Swimming"
                  /\ training.length_pool_m = d[4]
                  /\ training.count_pool = d[5]
                  /\ DOMAIN training =
                        {"cls", "actions_count", "duration_h", "weight_kg",
                         "length_pool_m", "count_pool"}

C2_Witness ==
    /\ Called("read_package")
    /\ call.workout_type = "SWM"
    /\ exc = NoExc
    /\ training # None
    /\ training.length_pool_m = Num(25)
    /\ training.count_pool = Num(40)

(* C3 as stated: once the driver has ended, in whatever way, the output has *)
(* as many lines as the input has pairs.                                    *)
C3_Original ==
    pc \in {"done", "raised"} => Len(output) = Len(packages)

(* C3, amended: once the driver has ended, the output holds the summary     *)
(* lines of the pairs before idx, in input order; idx is past the last pair *)
(* when the driver ended without an exception, and is the pair that raised  *)
(* otherwise.                                                               *)
C3_LinePerPairInOrder ==
    pc \in {"done", "raised"} =>
        /\ Len(output) = idx - 1
        /\ \A i \in 1..Len(output) : output[i] = SummaryLine(packages[i])
        /\ pc = "done" => Len(output) = Len(packages)
        /\ pc = "raised" => idx <= Len(packages) /\ exc # NoExc

C3_Witness ==
    /\ pc = "done"
    /\ Len(packages) = 2
    /\ Len(output) = 2
    /\ output[1] # output[2]

(* C4: a call that raises leaves the standard output as it was: no line and *)
(* no part of a line is printed for the pair, and the lines printed before  *)
(* are unchanged.                                                           *)
C4_NoOutputOnFailure ==
    [][(ops' = ops + 1 /\ exc' # NoExc) => output' = output]_vars

C4_Witness ==
    /\ Called("main")
    /\ exc.exc = "NotImplementedError"
    /\ Len(output) > 0

(* C5: for a Running instance with valid readings, get_distance returns     *)
(* actions_count * 0.65 / 1000 and get_mean_speed returns that distance     *)
(* divided by duration_h; for (15000, 1, 75) both print as 9.750.           *)
C5_RunningDistanceAndSpeed ==
    (training # None /\ training.cls = "Running" /\ ValidInstance(training)) =>
        /\ Called("get_distance") =>
              /\ exc = NoExc
              /\ REq[RMul[ret, Num(100000)],
                     RMul[training.actions_count, Num(65)]]
              /\ training.actions_count = Num(15000) =>
                    Format3f[ret] = [neg |-> FALSE, milli |-> 9750]
        /\ Called("get_mean_speed") =>
              /\ exc = NoExc
              /\ REq[RMul[RMul[ret, training.duration_h], Num(100000)],
                     RMul[training.actions_count, Num(65)]]
              /\ (training.actions_count = Num(15000)
                    /\ training.duration_h = Num(1)) =>
                    Format3f[ret] = [neg |-> FALSE, milli |-> 9750]

C5_Witness ==
    /\ training = Training_init("Running", Num(15000), Num(1), Num(75))
    /\ Called("get_mean_speed")
    /\ ret # None
    /\ Format3f[ret].milli = 9750

(* C6: what get_mean_speed does on a Swimming instance is what it does on   *)
(* every Swimming instance with the same length_pool_m, count_pool and      *)
(* duration_h, and a value it returns is                                    *)
(* length_pool_m * count_pool / 1000 / duration_h.                          *)
C6_SwimmingSpeedInputs ==
    (training # None /\ training.cls = "Swimming" /\ Called("get_mean_speed")) =>
        /\ \A a \in PositionValues(1), w \in PositionValues(3) :
              get_mean_speed([training EXCEPT !.actions_count = a,
                                              !.weight_kg = w])
                 = (IF exc = NoExc THEN Ok(ret) ELSE exc)
        /\ exc = NoExc =>
              REq[RMul[RMul[ret, training.duration_h], Num(1000)],
                  RMul[training.length_pool_m, training.count_pool]]

C6_Witness ==
    /\ training = Swimming_init(Num(720), Num(1), Num(80), Num(25), Num(40))
    /\ Called("get_mean_speed")
    /\ ret # None
    /\ Format3f[ret] = [neg |-> FALSE, milli |-> 1000]

(* C7: no call of get_distance, get_mean_speed, get_spent_calories,         *)
(* show_training_info or main changes the instance, and two InfoMessages    *)
(* returned by show_training_info for the same instance are equal.          *)
C7_ShowIsIdempotent ==
    [][/\ call'.op \in {"get_distance", "get_mean_speed",
                        "get_spent_calories", "show_training_info", "main"}
          => training' = training
       /\ (info' # None /\ prev_info' # None) => info' = prev_info']_vars

C7_Witness ==
    /\ Called("show_training_info")
    /\ info # None
    /\ prev_info # None
    /\ training.cls \in ConcreteClasses

(* C8 as stated: on an instance of the base class, get_spent_calories and   *)
(* show_training_info raise NotImplementedError naming the class and return *)
(* nothing; on the other classes no call raises it.                         *)
C8_Original ==
    /\ (training # None /\ training.cls = "Training"
          /\ (Called("get_spent_calories") \/ Called("show_training_info"))) =>
            /\ exc = Raise("NotImplementedError", training.cls)
            /\ ret = None
    /\ (training # None /\ training.cls \in ConcreteClasses) =>
            exc.exc # "NotImplementedError"

(* C8, amended: on an instance of the base class get_spent_calories raises  *)
(* NotImplementedError naming the class; show_training_info raises the same *)
(* error when duration_h is not zero, and ZeroDivisionError, raised by      *)
(* get_mean_speed, when it is zero; either way nothing is returned.  On the *)
(* other classes no call raises NotImplementedError.                        *)
C8_BaseCaloriesUnimplemented ==
    /\ (training # None /\ training.cls = "Training") =>
          /\ Called("get_spent_calories") =>
                /\ exc = Raise("NotImplementedError", training.cls)
                /\ ret = None
          /\ Called("show_training_info") =>
                /\ ~IsZero(training.duration_h) =>
                      exc = Raise("NotImplementedError", training.cls)
                /\ IsZero(training.duration_h) =>
                      exc.exc = "ZeroDivisionError"
                /\ ret = None
                /\ info = None
    /\ (training # None /\ training.cls \in ConcreteClasses) =>
            exc.exc # "NotImplementedError"

C8_Witness ==
    /\ training # None
    /\ training.cls = "Training"
    /\ Called("show_training_info")
    /\ exc = Raise("NotImplementedError", "Training")

(* C9: when the driver has processed a pair, the InfoMessage of that pair   *)
(* names the class its code maps to, and holds duration_h, get_distance(),  *)
(* get_mean_speed() and get_spent_calories() of the instance in its         *)
(* duration, distance, speed and calories.                                  *)
C9_InfoMessageFields ==
    (pc \in {"loop", "done"} /\ idx > 1) =>
        LET w == packages[idx - 1].workout_type
        IN  /\ info # None
            /\ w = "SWM" => info.training_type = "Swimming"
            /\ w = "RUN" => info.training_type = "Running"
            /\ w = "WLK" => info.training_type = "SportsWalking"
            /\ info.duration = training.duration_h
            /\ info.distance = get_distance(training).val
            /\ info.speed = get_mean_speed(training).val
            /\ info.calories = get_spent_calories(training).val

C9_Witness ==
    /\ pc = "done"
    /\ idx > 1
    /\ packages[idx - 1].workout_type = "SWM"
    /\ info # None
    /\ info.training_type = "Swimming"
    /\ ~REq[info.distance, info.speed]

(* C10: on a Running, SportsWalking or Swimming instance with valid         *)
(* readings get_spent_calories returns a value that is not negative.        *)
C10_CaloriesNonNegative ==
    (training # None /\ training.cls \in ConcreteClasses
        /\ ValidInstance(training) /\ Called("get_spent_calories")) =>
            /\ exc = NoExc
            /\ ret # None
            /\ NonNegative(ret)

C10_Witness ==
    /\ training # None
    /\ training.cls = "Running"
    /\ training.actions_count = Num(0)
    /\ ValidInstance(training)
    /\ Called("get_spent_calories")
    /\ ret # None
    /\ Positive(ret)

====
